---------------------------- MODULE Spec2Model ----------------------------
(***************************************************************************)
(* Model of tb/gen_stimuli.cpp, the stimuli generator of the FPnew mixed   *)
(* precision testbench.  main() is a sequential program; the model follows *)
(* it statement block by statement block with a program counter pc.        *)
(*                                                                         *)
(* Text (std::string) is a sequence of one-character strings.  A flexfloat *)
(* object is its descriptor together with the sign, exponent and fraction  *)
(* fields flexfloat_set_bits extracts from a bit pattern.  assert() is     *)
(* taken as compiled in (the source defines no NDEBUG): a failed assert    *)
(* aborts the process.                                                     *)
(***************************************************************************)
EXTENDS Integers, Sequences

VARIABLES
    pc,             \* position in main()
    argc, argv,     \* the command line: argv[1..argc-1]
    op, nr_of_stimuli, src_fmt, src2_fmt, dst_fmt,
    file_state,     \* the std::ofstream: "closed", "good" or "failed"
    file,           \* the lines ../stimuli.txt holds
    console,        \* the lines std::cout received
    fatal,          \* why the process aborted, "none" while it has not
    rd,             \* position in the entropy stream std::random_device yields
    k, i,           \* record index, lane index
    ff_a, ff_b, ff_c, ff_d, ff_e, ff_res,
    e_cc, d_cc, c_cc, b_cc, a_cc, db_cc, ca_cc, ca2_cc, output

cmdline == <<argc, argv>>
config  == <<op, nr_of_stimuli, src_fmt, src2_fmt, dst_fmt>>
io      == <<file_state, file, console>>
floats  == <<ff_a, ff_b, ff_c, ff_d, ff_e, ff_res>>
accs    == <<e_cc, d_cc, c_cc, b_cc, a_cc, db_cc, ca_cc, ca2_cc, output>>
vars    == <<pc, cmdline, config, io, fatal, rd, k, i, floats, accs>>

---------------------------------------------------------------------------
(* Bounds of the model.  A run is fixed by its command line, by whether    *)
(* the output file opens and by the entropy std::random_device yields; the *)
(* model takes the entropy as a stream of draws entered at one of MaxSeed  *)
(* positions, each ff_set_random taking the next draw.                     *)

\* largest nr_of_stimuli given on the command line
MaxN == 2
\* number of starting positions of the entropy stream
MaxSeed == 2

---------------------------------------------------------------------------
(* Constants of the program. *)

WIDTH == 32
DefaultStimuli == 10

FP64    == [exp_bits |-> 11, frac_bits |-> 52]
FP32    == [exp_bits |-> 8,  frac_bits |-> 23]
FP16    == [exp_bits |-> 5,  frac_bits |-> 10]
FP8     == [exp_bits |-> 5,  frac_bits |-> 2]
FP16ALT == [exp_bits |-> 8,  frac_bits |-> 7]
FP8ALT  == [exp_bits |-> 4,  frac_bits |-> 3]

op_mod == FALSE

---------------------------------------------------------------------------
(* Text helpers. *)

\* std::string(n, ch) and the padding std::setfill(ch) << std::setw(n)
\* produces: nothing when n is not positive.
Rep(n, ch) == [j \in 1..(IF n > 0 THEN n ELSE 0) |-> ch]

\* C++ integer division truncates toward zero.
CDiv(a, b) == IF a >= 0 THEN a \div b ELSE -((-a) \div b)

HexChars == <<"0","1","2","3","4","5","6","7","8","9","a","b","c","d","e","f">>

Pow2(n) == 2 ^ n

\* The names std::string::compare tests for.
S_SDOTP  == <<"S","D","O","T","P">>
S_VSUM   == <<"V","S","U","M">>
S_EXVSUM == <<"E","X","V","S","U","M">>
S_FMADD  == <<"F","M","A","D","D">>
S_FP32   == <<"F","P","3","2">>
S_FP16   == <<"F","P","1","6">>
S_FP8    == <<"F","P","8">>
S_AL16   == <<"A","L","1","6">>
S_AL8    == <<"A","L","8">>
\* names the program does not know
S_NOP    == <<"N","O","P">>
S_FP64   == <<"F","P","6","4">>

OpNames  == {S_SDOTP, S_VSUM, S_EXVSUM, S_FMADD, S_NOP}
FmtNames == {S_FP32, S_FP16, S_FP8, S_AL16, S_AL8, S_FP64}
ValidFmtNames == {S_FP32, S_FP16, S_FP8, S_AL16, S_AL8}

---------------------------------------------------------------------------
(* Format registry. *)

\* to_string(flexfloat_desc_t): the assert of its last branch
to_string_fails(desc) ==
    ~ \/ (desc.exp_bits = 8 /\ desc.frac_bits = 23)
      \/ (desc.exp_bits = 5 /\ desc.frac_bits = 10)
      \/ (desc.exp_bits = 5 /\ desc.frac_bits = 2)
      \/ (desc.exp_bits = 8 /\ desc.frac_bits = 7)
      \/ (desc.exp_bits = 4 /\ desc.frac_bits = 3)

\* to_string(flexfloat_desc_t): the tag, five characters with the separator
to_string(desc) ==
    IF      desc.exp_bits = 8 /\ desc.frac_bits = 23 THEN <<"F","P","3","2"," ">>
    ELSE IF desc.exp_bits = 5 /\ desc.frac_bits = 10 THEN <<"F","P","1","6"," ">>
    ELSE IF desc.exp_bits = 5 /\ desc.frac_bits = 2  THEN <<"F","P","0","8"," ">>
    ELSE IF desc.exp_bits = 8 /\ desc.frac_bits = 7  THEN <<"A","L","1","6"," ">>
    ELSE IF desc.exp_bits = 4 /\ desc.frac_bits = 3  THEN <<"A","L","0","8"," ">>
    ELSE <<>>

\* to_desc accepting the name of the FP64 descriptor it declares (mutant).
to_desc_fails_fp64(str) ==
    ~ (str = S_FP32 \/ str = S_FP16 \/ str = S_FP8 \/ str = S_AL16 \/ str = S_AL8
         \/ str = S_FP64)

\* to_desc: the assert of its last branch
to_desc_fails(str) ==
    ~ (str = S_FP32 \/ str = S_FP16 \/ str = S_FP8 \/ str = S_AL16 \/ str = S_AL8)

\* to_desc giving AL16 the descriptor of FP16 (mutant).
to_desc_al16(str) ==
    IF      str = S_FP32 THEN FP32
    ELSE IF str = S_FP16 THEN FP16
    ELSE IF str = S_FP8  THEN FP8
    ELSE IF str = S_AL16 THEN FP16
    ELSE IF str = S_AL8  THEN FP8ALT
    ELSE FP64

\* to_desc: the descriptor of a name it knows
to_desc(str) ==
    IF      str = S_FP32 THEN FP32
    ELSE IF str = S_FP16 THEN FP16
    ELSE IF str = S_FP8  THEN FP8
    ELSE IF str = S_AL16 THEN FP16ALT
    ELSE IF str = S_AL8  THEN FP8ALT
    ELSE FP64  \* not reached: the assert fails first

---------------------------------------------------------------------------
(* Variable precision float values. *)

\* exp_bits + frac_bits + 1, the total width of a format
ff_width(desc) == desc.exp_bits + desc.frac_bits + 1

\* ff_init: a value of the format with all fields zero
ff_init(desc) == [desc |-> desc, sign |-> 0, exp |-> 0, frac |-> 0]

\* flexfloat_set_bits(obj, bits): bits arrives as the 64 bit two's complement
\* of the signed draw; the fields are masked out of it.  On a signed integer
\* the shift is \div and the mask is %; the shift to the sign bit is taken
\* in two steps, 2^31 being no 32 bit integer.
flexfloat_set_bits(desc, binary) ==
    [desc |-> desc,
     sign |-> ((binary \div Pow2(desc.exp_bits + desc.frac_bits - 1)) \div 2) % 2,
     exp  |-> (binary \div Pow2(desc.frac_bits)) % Pow2(desc.exp_bits),
     frac |-> binary % Pow2(desc.frac_bits)]

\* flexfloat_get_bits(ff) without its sign bit: (exp << frac_bits) + frac
get_bits_low(ff) == ff.exp * Pow2(ff.desc.frac_bits) + ff.frac

\* Hex digit n (0 the least significant) of (unsigned int)flexfloat_get_bits(ff),
\* which is (sign << (exp_bits + frac_bits)) + (exp << frac_bits) + frac; the
\* cast keeps the low 32 bits, hex digits 0..7.  The sign bit is added to
\* the digit it falls in, the whole pattern being no 32 bit signed integer.
get_nibble(ff, n) ==
    LET p == ff.desc.exp_bits + ff.desc.frac_bits
    IN  ((get_bits_low(ff) \div Pow2(4 * n)) % 16)
          + (IF n = p \div 4 THEN ff.sign * Pow2(p % 4) ELSE 0)

\* What operator<< prints for an unsigned int under std::hex before padding:
\* the digits from the highest non-zero one down, a single 0 for zero.
hex_digits(ff) ==
    LET ns  == [n \in 0..7 |-> get_nibble(ff, n)]
        nz  == {n \in 0..7 : ns[n] # 0}
        top == IF nz = {} THEN 0 ELSE CHOOSE n \in nz : \A m \in nz : m <= n
    IN  [j \in 1..(top + 1) |-> HexChars[ns[top + 1 - j] + 1]]

\* ts without the zero padding of the value (mutant).
ts_nopad(ff, width) ==
    LET w      == ff_width(ff.desc)
        filler == CDiv(width - w, 4)
    IN  (IF filler # 0 THEN Rep(filler, "F") ELSE <<>>) \o hex_digits(ff)

\* ts(ff, width): filler 'F's for the lane width the format leaves unused,
\* then the bit pattern in hex, zero padded to the format's own width.  The
\* round trip through double at its start leaves the fields as they are.
ts(ff, width) ==
    LET w      == ff_width(ff.desc)
        filler == CDiv(width - w, 4)
        digits == hex_digits(ff)
    IN  (IF filler # 0 THEN Rep(filler, "F") ELSE <<>>)
          \o Rep(w \div 4 - Len(digits), "0") \o digits

\* INTMIN, INTMAX
INTMAX == 2147483647
INTMIN == -INTMAX - 1

\* ff_set_random: the bounds of the uniform distribution of a format
draw_min(desc) ==
    IF ff_width(desc) = 32 THEN INTMIN ELSE -Pow2(desc.exp_bits + desc.frac_bits)

draw_max(desc) ==
    IF ff_width(desc) = 32 THEN INTMAX ELSE Pow2(desc.exp_bits + desc.frac_bits) - 1

\* The draws the model takes from the distribution: both ends of the range,
\* the values around zero and two mixed patterns.
Draws(desc) ==
    << 0, -1, draw_min(desc), draw_max(desc), 1,
       draw_max(desc) \div 3, -(draw_max(desc) \div 5) >>

DrawCount == Len(Draws(FP32))

\* the draw at stream position r
draw(desc, r) == Draws(desc)[(r % DrawCount) + 1]

\* ff_set_random(obj) at stream position r: the object after flexfloat_set_bits
ff_set_random(ff, r) == flexfloat_set_bits(ff.desc, draw(ff.desc, r))

\* The golden result, cast to dst_fmt.  The arithmetic is flexfloat's; the
\* model keeps that the result is a dst_fmt value fixed by the operands the
\* formula of the operation reads.
golden(o, a, b, c, d, e, desc) ==
    LET sum(x) == x.sign + x.exp + (x.frac % 16)
        r == CASE o = "SDOTP" -> sum(a) + sum(b) + sum(c) + sum(d) + sum(e)
               [] o \in {"VSUM", "EXVSUM"} -> sum(e) + sum(a) + sum(c)
               [] o = "FMADD" -> sum(a) + sum(c) + sum(e)
    IN  flexfloat_set_bits(desc, draw(desc, r))

---------------------------------------------------------------------------
(* main(): the values it derives from the formats once they are settled. *)

is_vsum == op = "VSUM"
is_fma  == op = "FMADD"

a_fmt == IF is_fma THEN src2_fmt ELSE src_fmt
b_fmt == src2_fmt
c_fmt == src_fmt
d_fmt == IF is_vsum THEN src_fmt ELSE src2_fmt
e_fmt == dst_fmt

dst_width == dst_fmt.exp_bits + dst_fmt.frac_bits + 1

is_8bit_exvsum == op = "EXVSUM" /\ dst_width = 8

\* src_width without the halving (mutant).
src_width_full == dst_width

src_width == IF is_fma \/ is_8bit_exvsum THEN dst_width ELSE CDiv(dst_width, 2)

\* the lane loop without its break (mutant).
lane_break_never == FALSE

\* the bound of the lane loop and its break
lane_limit == CDiv(WIDTH, dst_width)
lane_break == op = "VSUM" /\ dst_width = 8 /\ i >= CDiv(WIDTH, 16)

\* the header comment line
HeaderLine ==
    <<
       "/","/","o","p","e","r","a","t","i","o","n"," ","o","p","_","m",
       "o","d"," ","s","r","c","_","f","m","t"," ","s","r","c","2","_",
       "f","m","t"," ","d","s","t","_","f","m","t"," ","o","p","e","r",
       "a","n","d","s"," ","e","x","p","_","r","e","s","u","l","t" >>

FinishedLine == "Finished 32-bit stimuli file generation."

\* a write that puts the line in front (mutant).
write_front(f, line) == IF file_state = "good" THEN <<line>> \o f ELSE f

\* file << line << std::endl: a stream that failed to open drops the line
write(f, line) == IF file_state = "good" THEN Append(f, line) ELSE f

\* the text operator<< prints for the bool op_mod
bool_text(b) == IF b THEN <<"1">> ELSE <<"0">>

\* what every record line starts with after its tag
fmt_tags == to_string(src_fmt) \o to_string(src2_fmt) \o to_string(dst_fmt)

\* the record line of each case of the switch on op
RecordLine ==
    CASE op = "SDOTP" ->
           <<"S","D","O","T","P"," ">> \o bool_text(op_mod) \o <<" ">> \o fmt_tags
             \o e_cc \o db_cc \o ca_cc \o <<" ">> \o output
      [] op = "VSUM" /\ dst_width = WIDTH ->
           <<"V","S","U","M","_"," ">> \o bool_text(op_mod) \o <<" ">> \o fmt_tags
             \o e_cc \o c_cc \o a_cc \o <<" ">> \o output
      [] op = "VSUM" /\ dst_width # WIDTH ->
           <<"V","S","U","M","_"," ">> \o bool_text(op_mod) \o <<" ">> \o fmt_tags
             \o e_cc \o ca2_cc \o ca_cc \o <<" ">> \o output
      [] op = "EXVSUM" ->
           <<"E","X","V","S","U"," ">> \o bool_text(op_mod) \o <<" ">> \o fmt_tags
             \o e_cc \o Rep(CDiv(WIDTH, 4), "F") \o ca_cc \o <<" ">> \o output
      [] op = "FMADD" ->
           <<"F","M","A","D","D"," ">> \o bool_text(op_mod) \o <<" ">> \o fmt_tags
             \o e_cc \o c_cc \o a_cc \o <<" ">> \o output

---------------------------------------------------------------------------
(* The command lines the model runs the program on. *)

\* the first argument: an integer std::stoi reads, negative included
NrArgs == -1..MaxN

\* argv[1..n-1] of a command line of n words: an integer, an operation name
\* and three format names, as far as they are given.
ArgVectors(n) ==
    { SubSeq(<<nr, o, f1, f2, f3>>, 1, n - 1) :
        nr \in NrArgs, o \in OpNames, f1 \in FmtNames, f2 \in FmtNames, f3 \in FmtNames }

Init ==
    /\ pc = "args"
    /\ argc \in 1..6
    /\ argv \in ArgVectors(argc)
    /\ op = "SDOTP"
    /\ nr_of_stimuli = DefaultStimuli
    /\ src_fmt = FP16
    /\ src2_fmt = FP16
    /\ dst_fmt = FP32
    /\ file_state = "closed"
    /\ file = <<>>
    /\ console = <<>>
    /\ fatal = "none"
    /\ rd \in 0..(MaxSeed - 1)
    /\ k = 0
    /\ i = 0
    /\ ff_a = ff_init(FP64) /\ ff_b = ff_init(FP64) /\ ff_c = ff_init(FP64)
    /\ ff_d = ff_init(FP64) /\ ff_e = ff_init(FP64) /\ ff_res = ff_init(FP64)
    /\ e_cc = <<>> /\ d_cc = <<>> /\ c_cc = <<>> /\ b_cc = <<>> /\ a_cc = <<>>
    /\ db_cc = <<>> /\ ca_cc = <<>> /\ ca2_cc = <<>> /\ output = <<>>

\* argc > 1, argc > 2: the number of stimuli and the operation with the
\* formats it presets; a name that is no operation leaves the defaults.
ParseArgs ==
    /\ pc = "args"
    /\ nr_of_stimuli' = IF argc > 1 THEN argv[1] ELSE nr_of_stimuli
    /\ IF argc > 2 /\ argv[2] = S_SDOTP
         THEN op' = "SDOTP" /\ src_fmt' = FP16 /\ src2_fmt' = FP16 /\ dst_fmt' = FP32
       ELSE IF argc > 2 /\ argv[2] = S_VSUM
         THEN op' = "VSUM" /\ src_fmt' = FP16 /\ src2_fmt' = FP16 /\ dst_fmt' = FP16
       ELSE IF argc > 2 /\ argv[2] = S_EXVSUM
         THEN op' = "EXVSUM" /\ src_fmt' = FP16 /\ src2_fmt' = FP16 /\ dst_fmt' = FP32
       ELSE IF argc > 2 /\ argv[2] = S_FMADD
         THEN op' = "FMADD" /\ src_fmt' = FP32 /\ src2_fmt' = FP32 /\ dst_fmt' = FP32
       ELSE UNCHANGED <<op, src_fmt, src2_fmt, dst_fmt>>
    /\ pc' = "formats"
    /\ UNCHANGED <<cmdline, io, fatal, rd, k, i, floats, accs>>

\* argc > 5 with three names to_desc knows, or fewer arguments
OverrideFormats ==
    /\ pc = "formats"
    /\ IF argc > 5
         THEN /\ ~ to_desc_fails(argv[3])
              /\ ~ to_desc_fails(argv[4])
              /\ ~ to_desc_fails(argv[5])
              /\ src_fmt'  = to_desc(argv[3])
              /\ src2_fmt' = to_desc(argv[4])
              /\ dst_fmt'  = to_desc(argv[5])
         ELSE UNCHANGED <<src_fmt, src2_fmt, dst_fmt>>
    /\ pc' = "open"
    /\ UNCHANGED <<cmdline, op, nr_of_stimuli, io, fatal, rd, k, i, floats, accs>>

\* argc > 5 and the assert of to_desc fails on one of the names
InvalidFormat ==
    /\ pc = "formats"
    /\ argc > 5
    /\ to_desc_fails(argv[3]) \/ to_desc_fails(argv[4]) \/ to_desc_fails(argv[5])
    /\ fatal' = "InvalidFormat"
    /\ pc' = "aborted"
    /\ UNCHANGED <<cmdline, config, io, rd, k, i, floats, accs>>

\* file.open("../stimuli.txt", std::ios::out): it opens or it does not, and
\* main goes on either way.
OpenFile ==
    /\ pc = "open"
    /\ \E ok \in BOOLEAN : file_state' = IF ok THEN "good" ELSE "failed"
    /\ file' = <<>>
    /\ pc' = "header"
    /\ UNCHANGED <<cmdline, config, console, fatal, rd, k, i, floats, accs>>

\* the header line, then ff_init of the five operands
WriteHeader ==
    /\ pc = "header"
    /\ file' = write(file, HeaderLine)
    /\ ff_a' = ff_init(a_fmt)
    /\ ff_b' = ff_init(b_fmt)
    /\ ff_c' = ff_init(c_fmt)
    /\ ff_d' = ff_init(d_fmt)
    /\ ff_e' = ff_init(e_fmt)
    /\ k' = 0
    /\ pc' = "loop"
    /\ UNCHANGED <<cmdline, config, file_state, console, fatal, rd, i, ff_res, accs>>

\* the loop body without the reset of ca_cc and ca2_cc (mutant).
BeginRecord_keep_ca ==
    /\ pc = "loop"
    /\ k < nr_of_stimuli
    /\ e_cc' = <<>> /\ d_cc' = <<>> /\ c_cc' = <<>> /\ b_cc' = <<>> /\ a_cc' = <<>>
    /\ db_cc' = <<>> /\ output' = <<>>
    /\ i' = 0
    /\ pc' = "lane"
    /\ UNCHANGED <<cmdline, config, io, fatal, rd, k, floats, ca_cc, ca2_cc>>

\* for (k < nr_of_stimuli): the accumulators of the record are emptied
BeginRecord ==
    /\ pc = "loop"
    /\ k < nr_of_stimuli
    /\ e_cc' = <<>> /\ d_cc' = <<>> /\ c_cc' = <<>> /\ b_cc' = <<>> /\ a_cc' = <<>>
    /\ db_cc' = <<>> /\ ca_cc' = <<>> /\ ca2_cc' = <<>> /\ output' = <<>>
    /\ i' = 0
    /\ pc' = "lane"
    /\ UNCHANGED <<cmdline, config, io, fatal, rd, k, floats>>

\* the (c,a) pair of a lane goes to ca_cc under this condition (mutant: the
\* parity test left out).
to_ca_always == TRUE

\* the (c,a) pair of a lane goes to ca_cc under this condition, to ca2_cc
\* otherwise
to_ca == op # "VSUM" \/ k % 2 = 0 \/ dst_width = 8

\* the FF of e_cc given to every 8 bit destination (mutant).
e_prefix_any8 == IF dst_width = 8 THEN <<"F","F">> ELSE <<>>

\* what e_cc receives before the e value of a lane
e_prefix == IF op = "VSUM" /\ dst_width = 8 THEN <<"F","F">> ELSE <<>>

\* one pass of the lane loop: five draws, the golden result, and the hex
\* strings appended to the accumulators
Lane ==
    /\ pc = "lane"
    /\ i < lane_limit
    /\ ~ lane_break
    /\ ff_a' = ff_set_random(ff_a, rd)
    /\ ff_b' = ff_set_random(ff_b, rd + 1)
    /\ ff_c' = ff_set_random(ff_c, rd + 2)
    /\ ff_d' = ff_set_random(ff_d, rd + 3)
    /\ ff_e' = ff_set_random(ff_e, rd + 4)
    /\ rd' = (rd + 5) % DrawCount
    /\ ff_res' = golden(op, ff_a', ff_b', ff_c', ff_d', ff_e', dst_fmt)
    /\ LET hex_a == ts(ff_a', src_width)
           hex_b == ts(ff_b', src_width)
           hex_c == ts(ff_c', src_width)
           hex_d == ts(ff_d', src_width)
       IN  /\ e_cc' = e_cc \o e_prefix \o ts(ff_e', dst_width)
           /\ d_cc' = d_cc \o hex_d
           /\ c_cc' = c_cc \o hex_c
           /\ b_cc' = b_cc \o hex_b
           /\ a_cc' = a_cc \o hex_a
           /\ db_cc' = db_cc \o hex_d \o hex_b
           /\ IF to_ca
                THEN ca_cc' = ca_cc \o hex_c \o hex_a /\ ca2_cc' = ca2_cc
                ELSE ca2_cc' = ca2_cc \o hex_c \o hex_a /\ ca_cc' = ca_cc
           /\ output' = output \o ts(ff_res', dst_width)
    /\ i' = i + 1
    /\ UNCHANGED <<pc, cmdline, config, io, fatal, k>>

\* the lane loop ends: its bound is reached or its break is taken; then the
\* padding of the 8 bit VSUM
EndLanes ==
    /\ pc = "lane"
    /\ i >= lane_limit \/ lane_break
    /\ IF op = "VSUM" /\ dst_width = 8
         THEN /\ output' = Rep(CDiv(WIDTH, 8), "F") \o output
              /\ ca2_cc' = Rep(CDiv(WIDTH, 4), "F")
         ELSE UNCHANGED <<output, ca2_cc>>
    /\ pc' = "emit"
    /\ UNCHANGED <<cmdline, config, io, fatal, rd, k, i, floats,
                   e_cc, d_cc, c_cc, b_cc, a_cc, db_cc, ca_cc>>

\* the switch on op writes the record line; k++
Emit ==
    /\ pc = "emit"
    /\ IF to_string_fails(src_fmt) \/ to_string_fails(src2_fmt) \/ to_string_fails(dst_fmt)
         THEN /\ fatal' = "InvalidFormat"
              /\ pc' = "aborted"
              /\ UNCHANGED <<file, k>>
         ELSE /\ file' = write(file, RecordLine)
              /\ k' = k + 1
              /\ pc' = "loop"
              /\ UNCHANGED fatal
    /\ UNCHANGED <<cmdline, config, file_state, console, rd, i, floats, accs>>

\* the loop is over: file.close() (a stream that never opened stays failed),
\* the message on std::cout, return 0
Finish ==
    /\ pc = "loop"
    /\ k >= nr_of_stimuli
    /\ file_state' = IF file_state = "good" THEN "closed" ELSE file_state
    /\ console' = Append(console, FinishedLine)
    /\ pc' = "done"
    /\ UNCHANGED <<cmdline, config, file, fatal, rd, k, i, floats, accs>>

Next ==
    \/ ParseArgs
    \/ OverrideFormats
    \/ InvalidFormat
    \/ OpenFile
    \/ WriteHeader
    \/ BeginRecord
    \/ Lane
    \/ EndLanes
    \/ Emit
    \/ Finish

Spec == Init /\ [][Next]_vars

---------------------------------------------------------------------------
(* Properties. *)

HexSet == {HexChars[j] : j \in 1..16}

AllIn(str, S) == \A j \in 1..Len(str) : str[j] \in S

Last(str, n) == SubSeq(str, Len(str) - n + 1, Len(str))

Larger(x, y) == IF x >= y THEN x ELSE y

\* a lane has been encoded and its values are still in the flexfloat objects
LaneEncoded == pc \in {"lane", "emit"} /\ i > 0

\* the formats were given on the command line and to_desc has taken them
FormatsGiven == argc > 5 /\ pc \notin {"args", "formats", "aborted"}

\* C1 as stated: every value the record assembler encodes, a, b, c and d at
\* src_width, e and the result at dst_width, comes out of ts as exactly
\* lane width / 4 characters.
C1_Original ==
    LaneEncoded =>
        /\ Len(ts(ff_a, src_width)) = src_width \div 4
        /\ Len(ts(ff_b, src_width)) = src_width \div 4
        /\ Len(ts(ff_c, src_width)) = src_width \div 4
        /\ Len(ts(ff_d, src_width)) = src_width \div 4
        /\ Len(ts(ff_e, dst_width)) = dst_width \div 4
        /\ Len(ts(ff_res, dst_width)) = dst_width \div 4

\* the length C1 as amended gives ts: that of the wider of lane and format
C1_Digits(ff, width) == Larger(width, ff_width(ff.desc)) \div 4

\* C1 as amended: ts returns exactly max(lane width, width of the value's
\* format) / 4 characters, so lane width / 4 whenever the format of the
\* value is no wider than the lane; e and the result, whose format is the
\* destination format, always come out as dst_width / 4 characters.
C1_HexLength ==
    LaneEncoded =>
        /\ Len(ts(ff_a, src_width)) = C1_Digits(ff_a, src_width)
        /\ Len(ts(ff_b, src_width)) = C1_Digits(ff_b, src_width)
        /\ Len(ts(ff_c, src_width)) = C1_Digits(ff_c, src_width)
        /\ Len(ts(ff_d, src_width)) = C1_Digits(ff_d, src_width)
        /\ Len(ts(ff_e, dst_width)) = dst_width \div 4
        /\ Len(ts(ff_res, dst_width)) = dst_width \div 4
        /\ Len(a_cc) = i * C1_Digits(ff_a, src_width)
        /\ pc = "lane" => Len(output) = i * (dst_width \div 4)

\* C1's case: a lane is encoded in which a is narrower than the source lane
\* and zero, so that filler and zero padding both show, and c is wider
C1_Witness ==
    /\ LaneEncoded
    /\ ff_width(ff_a.desc) < src_width
    /\ ff_a.sign = 0 /\ ff_a.exp = 0 /\ ff_a.frac = 0
    /\ ff_width(ff_c.desc) > src_width

\* C2 as stated: to_string(to_desc(name)) is name again, for the three
\* format names of the command line.
C2_Original ==
    FormatsGiven =>
        /\ to_string(src_fmt) = argv[3]
        /\ to_string(src2_fmt) = argv[4]
        /\ to_string(dst_fmt) = argv[5]

\* the tag C2 as amended gives a name: its width in two digits, then a space
C2_Tag(name) ==
    IF Len(name) = 4 THEN name \o <<" ">>
    ELSE SubSeq(name, 1, 2) \o <<"0">> \o SubSeq(name, 3, Len(name)) \o <<" ">>

\* C2 as amended: to_string(to_desc(name)) is the name with its width written
\* in two digits (FP8 gives FP08, AL8 gives AL08) followed by one space, so
\* it is never the name itself, and different names give different tags.
C2_RoundTrip ==
    FormatsGiven =>
        /\ to_string(src_fmt) = C2_Tag(argv[3])
        /\ to_string(src2_fmt) = C2_Tag(argv[4])
        /\ to_string(dst_fmt) = C2_Tag(argv[5])
        /\ \A x, y \in {argv[3], argv[4], argv[5]} :
              to_string(to_desc(x)) = to_string(to_desc(y)) => x = y

\* C2's case: a record is about to be written with the three tags, for
\* formats named AL16, AL8 and FP8 on the command line
C2_Witness ==
    /\ FormatsGiven
    /\ pc = "emit"
    /\ argv[3] = S_AL16 /\ argv[4] = S_AL8 /\ argv[5] = S_FP8

\* C3: when the output file cannot be opened the run ends fatally: it does
\* not enter the record loop and does not report completion.
C3_OpenFailureFatal ==
    file_state = "failed" =>
        /\ pc \notin {"lane", "emit", "done"}
        /\ console = <<>>

\* the run of (N, "FMADD") whose output file opens
C4_Run == argc = 3 /\ argv[2] = S_FMADD /\ argv[1] >= 0 /\ file_state # "failed"

C4_Prefix ==
    << "F","M","A","D","D"," ","0"," ",
       "F","P","3","2"," ","F","P","3","2"," ","F","P","3","2"," " >>

\* a record line of the FMADD run: tag, modifier and format tags, 24 hex
\* digits of operands, a space and 8 hex digits of result
C4_Record(line) ==
    /\ Len(line) = Len(C4_Prefix) + 24 + 1 + 8
    /\ SubSeq(line, 1, Len(C4_Prefix)) = C4_Prefix
    /\ AllIn(SubSeq(line, Len(C4_Prefix) + 1, Len(C4_Prefix) + 24), HexSet)
    /\ line[Len(line) - 8] = " "
    /\ AllIn(Last(line, 8), HexSet)

\* C4: the run of (N, "FMADD"), N >= 0, whose output file opens, writes the
\* header line first and then one record line per pass of the loop, in the
\* order of the passes, N in all, and goes on until it is done; every
\* record line is tagged FMADD, carries the tags FP32 FP32 FP32 and ends in
\* a result of 8 hex digits.
C4_FmaddRun ==
    C4_Run =>
        /\ pc # "args" => k <= nr_of_stimuli /\ nr_of_stimuli = argv[1]
        /\ pc \in {"loop", "lane", "emit", "done"} =>
              /\ Len(file) = k + 1
              /\ file[1] = HeaderLine
              /\ \A j \in 2..Len(file) : C4_Record(file[j])
        /\ pc = "loop" /\ k > 0 => file[k + 1] = RecordLine
        /\ pc = "done" => Len(file) = argv[1] + 1 /\ console = <<FinishedLine>>
        /\ pc # "done" => ENABLED Next

\* C4's case: the run of (2, "FMADD") is done with its three lines written
C4_Witness ==
    /\ C4_Run
    /\ argv[1] = 2
    /\ pc = "done"
    /\ Len(file) = 3

\* the (c,a) pairs of the lanes in lane order, from the c and a accumulators
\* with lc and la characters a lane
Pairs(c, a, lc, la) ==
    [j \in 1..(Len(c) + Len(a)) |->
        LET lane == (j - 1) \div (lc + la)
            off  == (j - 1) % (lc + la)
        IN  IF off < lc THEN c[lane * lc + off + 1]
            ELSE a[lane * la + (off - lc) + 1]]

\* VSUM with a destination narrower than the datapath and wider than 8 bit
Vsum16 == op = "VSUM" /\ dst_width # WIDTH /\ dst_width # 8

\* the line of the record whose accumulators are still held, once written
Written == pc = "loop" /\ k > 0 /\ file_state = "good"

\* C5: for VSUM with a destination width that is neither W nor 8, the (c,a)
\* pairs of the lanes of record k are in ca_cc when k is even and in ca2_cc
\* when k is odd; the record is written tagged VSUM_ as e_cc, ca2_cc, ca_cc.
C5_Routing ==
    Vsum16 =>
        /\ LaneEncoded =>
              LET pairs == Pairs(c_cc, a_cc, Len(c_cc) \div i, Len(a_cc) \div i)
              IN  /\ k % 2 = 0 => ca_cc = pairs /\ ca2_cc = <<>>
                  /\ k % 2 = 1 => ca2_cc = pairs /\ ca_cc = <<>>
        /\ Written =>
              file[Len(file)] =
                  <<"V","S","U","M","_"," ","0"," ">> \o fmt_tags
                    \o e_cc \o ca2_cc \o ca_cc \o <<" ">> \o output

\* C5's case: the second record of such a VSUM run has its pairs in ca2_cc
C5_Witness ==
    /\ Vsum16
    /\ pc = "emit"
    /\ k = 1
    /\ ca2_cc # <<>>

\* C6: for VSUM with an 8 bit destination every record has W/16 = 2 lanes,
\* a result of W/8 = 4 'F's followed by the result digits of the two lanes,
\* and a ca2_cc of W/4 = 8 'F's, whatever the record index.
C6_Vsum8 ==
    op = "VSUM" /\ dst_width = 8 =>
        /\ pc = "emit" =>
              /\ i = WIDTH \div 16
              /\ i = 2
              /\ Len(output) = WIDTH \div 8 + i * 2
              /\ SubSeq(output, 1, 4) = <<"F","F","F","F">>
              /\ AllIn(SubSeq(output, 5, Len(output)), HexSet)
              /\ Last(output, 2) = ts(ff_res, 8)
              /\ ca2_cc = <<"F","F","F","F","F","F","F","F">>
        /\ Written =>
              /\ Last(file[Len(file)], Len(output) + 1) = <<" ">> \o output
              /\ ca2_cc = <<"F","F","F","F","F","F","F","F">>

\* C6's case: the second record of a VSUM run with an 8 bit destination
C6_Witness ==
    /\ op = "VSUM" /\ dst_width = 8
    /\ pc = "emit"
    /\ k = 1
    /\ Len(file) = 2

\* all five arguments are given and a format name is not one of the five
C7_Case == argc > 5 /\ \E j \in 3..5 : argv[j] \notin ValidFmtNames

\* C7: with all five arguments given and a format name that is none of FP32,
\* FP16, FP8, AL16, AL8 the run aborts with InvalidFormat; the output file is
\* never opened and no line, the header included, is written.
C7_InvalidFormatAborts ==
    C7_Case =>
        /\ pc \in {"args", "formats", "aborted"}
        /\ file_state = "closed" /\ file = <<>> /\ console = <<>>
        /\ pc = "aborted" => fatal = "InvalidFormat"
        /\ pc = "formats" => ENABLED InvalidFormat /\ ~ ENABLED OverrideFormats

\* C7's case: the run has aborted on the third format name alone
C7_Witness ==
    /\ C7_Case
    /\ argv[3] \in ValidFmtNames /\ argv[4] \in ValidFmtNames
    /\ pc = "aborted"
    /\ fatal = "InvalidFormat"

\* C8 as stated: for every operation and destination format e_cc is the e
\* values of the lanes at dst_width / 4 hex digits each and nothing else.
C8_Original ==
    LaneEncoded =>
        /\ Len(e_cc) = i * (dst_width \div 4)
        /\ AllIn(e_cc, HexSet)
        /\ Last(e_cc, dst_width \div 4) = ts(ff_e, dst_width)

\* C8 as amended: e_cc is, lane after lane, the e value of the lane at
\* dst_width / 4 hex digits, preceded for VSUM with an 8 bit destination,
\* and only there, by the two characters FF.
C8_EField ==
    LaneEncoded =>
        LET pre   == IF op = "VSUM" /\ dst_width = 8 THEN <<"F","F">> ELSE <<>>
            chunk == Len(pre) + dst_width \div 4
        IN  /\ Len(e_cc) = i * chunk
            /\ \A lane \in 0..(i - 1) :
                  /\ SubSeq(e_cc, lane * chunk + 1, lane * chunk + Len(pre)) = pre
                  /\ AllIn(SubSeq(e_cc, lane * chunk + Len(pre) + 1, (lane + 1) * chunk),
                           HexSet)
            /\ Last(e_cc, dst_width \div 4) = ts(ff_e, dst_width)

\* C8's case: both lanes of a VSUM record with an 8 bit destination are in
\* e_cc
C8_Witness ==
    /\ LaneEncoded
    /\ op = "VSUM" /\ dst_width = 8
    /\ i = 2
    /\ Len(e_cc) = 8

\* the run takes the formats its operation presets
DefaultFormats == argc <= 5 /\ pc = "emit"

\* C9: with the formats the operation presets (SDOTP FP16 FP16 FP32, VSUM
\* FP16 FP16 FP16, EXVSUM FP16 FP16 FP32, FMADD FP32 FP32 FP32) every record
\* has W / D lanes, 3 * W / 4 = 24 hex digits of operands and W / 4 = 8 hex
\* digits of result.
C9_DefaultRecord ==
    DefaultFormats =>
        LET line     == RecordLine
            operands == SubSeq(line, 24, Len(line) - Len(output) - 1)
        IN  /\ <<op, src_fmt, src2_fmt, dst_fmt>> \in
                  { <<"SDOTP", FP16, FP16, FP32>>, <<"VSUM", FP16, FP16, FP16>>,
                    <<"EXVSUM", FP16, FP16, FP32>>, <<"FMADD", FP32, FP32, FP32>> }
            /\ i = WIDTH \div dst_width
            /\ Len(output) = WIDTH \div 4
            /\ AllIn(output, HexSet)
            /\ Last(line, Len(output) + 1) = <<" ">> \o output
            /\ Len(operands) = (3 * WIDTH) \div 4
            /\ AllIn(operands, HexSet \cup {"F"})

\* C9's case: the second record of an EXVSUM run with preset formats
C9_Witness ==
    /\ DefaultFormats
    /\ op = "EXVSUM"
    /\ k = 1

\* C10: for VSUM with a 16 bit destination every record starts with all
\* accumulators empty and ends with exactly one of ca_cc and ca2_cc
\* non-empty, so that what is written between e_cc and the result is the
\* (c,a) pairs of the lanes in lane order, and the line has the same layout
\* and length whatever the parity of the record index.
C10_Layout ==
    Vsum16 =>
        /\ pc = "lane" /\ i = 0 =>
              /\ e_cc = <<>> /\ d_cc = <<>> /\ c_cc = <<>> /\ b_cc = <<>> /\ a_cc = <<>>
              /\ db_cc = <<>> /\ ca_cc = <<>> /\ ca2_cc = <<>> /\ output = <<>>
        /\ pc = "emit" =>
              LET pairs == Pairs(c_cc, a_cc, Len(c_cc) \div i, Len(a_cc) \div i)
                  line  == RecordLine
              IN  /\ (ca_cc = <<>>) # (ca2_cc = <<>>)
                  /\ SubSeq(line, 24 + Len(e_cc), Len(line) - Len(output) - 1) = pairs
                  /\ Len(line) = 23 + 2 * (dst_width \div 4)
                                   + 2 * ((Larger(src_width, ff_width(c_fmt))
                                           + Larger(src_width, ff_width(a_fmt))) \div 4)
                                   + 1 + 2 * (dst_width \div 4)

\* C10's case: an odd record of such a VSUM run, pairs in ca2_cc, ready to
\* be written
C10_Witness ==
    /\ Vsum16
    /\ pc = "emit"
    /\ k % 2 = 1
    /\ ca_cc = <<>>
    /\ Len(ca2_cc) = 16

=============================================================================
